---------------------------- MODULE Spec2Model ----------------------------
(***************************************************************************)
(* A state-machine model of uifont_opsz.cpp: the construction of the six   *)
(* test-case fonts, the per-test-case introspection loop, the 2 x 3 x 9    *)
(* perturbation sweep and the releases of every CoreFoundation object.     *)
(*                                                                         *)
(* Axis values are fixed-point numbers in units of 1/Scale (0.0001), so    *)
(* the float literal 0.0001f of line 179 is one unit (Bump).  The CoreText *)
(* framework is an external collaborator: what it answers (the axes and    *)
(* the variation of a font, the variation of a derived font, CFEqual of    *)
(* two fonts, whether it retains the file bytes) is a nondeterministic     *)
(* choice from a small set.  Ownership follows the CoreFoundation rules:   *)
(* Create/Copy hand the caller one reference, Get hands none, a container  *)
(* retains what is added to it.                                            *)
(***************************************************************************)
EXTENDS Integers, Sequences, FiniteSets, TLC

VARIABLES
    pc,             \* position of main / make_ctfont_from_file
    k,              \* index of the test case being constructed or destroyed
    tc,             \* index of the test case of the range-for loop (line 107)
    font,           \* testCases[n].font: "unset", "null" or "font"
    fileOpened,     \* "untried", "ok" or "failed": the outcome of fopen (line 29)
    msgs,           \* number of "Could not open" lines printed (line 31)
    mem,            \* the mapped file, its Data record, the CFData's and allocator's holders
    rc,             \* references the program owns, per variable, and ownership errors
    fontAxes,       \* CTFontCopyVariationAxes(originalFont): sequence of [tag, def]
    fontVariation,  \* CTFontCopyVariation(originalFont): tag -> value
    resolved,       \* originalResolvedVariation
    i,              \* index of the axis loops (1-based)
    omitIdx,        \* position in {false, true} (line 153)
    bumpIdx,        \* position in {0u, kOpszTag, kWdthTag} (line 154)
    wghtIdx,        \* position in {100, ..., 900} (line 155)
    requested,      \* requestedVariation
    result,         \* the result font: [size, variation], or NoFont
    variationEqual, \* line 274
    fontEqual,      \* line 282
    trials,         \* history: the combinations run for the current test case
    casesDone,      \* history: number of trials run by each finished test case
    reqSeen,        \* history: the distinct requested dictionaries of this test case
    noneReq         \* history: wghtIdx -> request of the (omit, no bump) trial

vars == <<pc, k, tc, font, fileOpened, msgs, mem, rc, fontAxes, fontVariation,
          resolved, i, omitIdx, bumpIdx, wghtIdx, requested, result,
          variationEqual, fontEqual, trials, casesDone, reqSeen, noneReq>>

---------------------------------------------------------------------------
(* Bounds of the model. *)

\* The platform's fonts have between 1 and MaxAxes variation axes.
MaxAxes == 3

---------------------------------------------------------------------------
(* Program constants. *)

\* Number of entries of testCases[] (lines 92-101).
NumTestCases == 6
\* Position (1-based) of the make_ctfont_from_file entry (line 94).
FileCase == 2
\* Fixed-point scale: one unit is 0.0001, the perturbation of line 179.
Scale == 10000
\* 0.0001f (line 179) in units of 1/Scale.
Bump == 1

\* make_tag (lines 83-85): four 8-bit characters packed big-endian.
make_tag(a, b, c, d) == a * 16777216 + b * 65536 + c * 256 + d

kOpszTag == make_tag(111, 112, 115, 122)    \* 'o','p','s','z'
kWdthTag == make_tag(119, 100, 116, 104)    \* 'w','d','t','h'
kWghtTag == make_tag(119, 103, 104, 116)    \* 'w','g','h','t'
\* An axis the program has no constant for ('s','l','n','t').
kSlntTag == make_tag(115, 108, 110, 116)

\* The three initializer lists of lines 153-155.
OmitOpszValues == <<FALSE, TRUE>>
AxisToBumpValues == <<0, kOpszTag, kWdthTag>>
WghtValues == <<100 * Scale, 200 * Scale, 300 * Scale, 400 * Scale, 500 * Scale,
                600 * Scale, 700 * Scale, 800 * Scale, 900 * Scale>>

\* Point sizes of the six test cases, in hundredths (lines 93-100).
Sizes == <<2400, 2400, 1700, 1701, 9599, 9600>>

---------------------------------------------------------------------------
(* CFDictionary as a function with a finite domain. *)

EmptyDict == [t \in {} |-> 0]

\* CFDictionaryAddValue: adds the pair unless the key is already present.
CFDictionaryAddValue(d, key, v) == IF key \in DOMAIN d THEN d ELSE d @@ (key :> v)

\* CFEqual on two dictionaries: same keys, equal values.
CFEqualDict(a, b) == DOMAIN a = DOMAIN b /\ \A t \in DOMAIN a : a[t] = b[t]

NoFont == [size |-> 0, variation |-> EmptyDict]

---------------------------------------------------------------------------
(* The fonts the platform may hand out. *)

AllTags == {kOpszTag, kWdthTag, kWghtTag, kSlntTag}

\* kCTFontVariationAxisDefaultValueKey of each axis.
AxisDefault(tag) ==
    IF tag = kOpszTag THEN 17 * Scale
    ELSE IF tag = kWdthTag THEN 100 * Scale
    ELSE IF tag = kWghtTag THEN 400 * Scale
    ELSE 0

\* The value of an axis the font's variation dictionary names explicitly:
\* opsz clamped away from its default, wght explicitly at its default.
AxisExplicit(tag) ==
    IF tag = kOpszTag THEN 28 * Scale
    ELSE IF tag = kWdthTag THEN 110 * Scale
    ELSE IF tag = kWghtTag THEN 400 * Scale
    ELSE 5 * Scale

RECURSIVE Ascending(_)
Ascending(S) ==
    IF S = {} THEN << >>
    ELSE LET m == CHOOSE x \in S : \A y \in S : x <= y
         IN  <<m>> \o Ascending(S \ {m})

\* The axes of a font with the tags S, in ascending order of the tag.
AxisList(S) ==
    LET tags == Ascending(S)
    IN  [n \in 1..Len(tags) |-> [tag |-> tags[n], def |-> AxisDefault(tags[n])]]

\* A font has 1 to MaxAxes axes; its variation dictionary names none of
\* them, all of them, or opsz alone.
FontProfiles ==
    { [axes |-> AxisList(p[1]), variation |-> [t \in p[2] |-> AxisExplicit(t)]] :
        p \in { q \in (SUBSET AllTags) \X (SUBSET AllTags) :
                  /\ Cardinality(q[1]) >= 1
                  /\ Cardinality(q[1]) <= MaxAxes
                  /\ q[2] \in {{}, q[1], q[1] \cap {kOpszTag}} } }

---------------------------------------------------------------------------
(* Ownership of CoreFoundation objects.  rc[v] is the number of references *)
(* the program owns through variable v.  An ownership error leaves a       *)
(* negative mark that stays: OverReleased or UsedAfterRelease.             *)

OverReleased == 0 - 1
UsedAfterRelease == 0 - 2

FontSlots == <<"font1", "font2", "font3", "font4", "font5", "font6">>

CaseSlots == {"originalDescriptor", "originalAxes", "originalVariation",
              "originalResolvedVariation", "opszNumber"}

TrialSlots == {"requestedVariation", "requestedAttributes", "resultDescriptor",
               "resultFont", "resultAxes", "resultVariation",
               "innerOriginalAxes", "innerOriginalVariation"}

FileSlots == {"alloc", "fileData", "desc", "ctFont"}

Slots == {FontSlots[n] : n \in 1..NumTestCases} \cup CaseSlots \cup TrialSlots
            \cup FileSlots \cup {"valueNumber"}

\* A Create or Copy call whose result is stored in variable s.
Obtain(r, s) == [r EXCEPT ![s] = IF @ < 0 THEN @ ELSE @ + 1]

\* CFRelease(s): releasing a reference the program does not own is an error.
CFRelease(r, s) ==
    [r EXCEPT ![s] = IF @ < 0 THEN @ ELSE IF @ = 0 THEN OverReleased ELSE @ - 1]

\* A call that reads the object of variable s.
Use(r, s) == [r EXCEPT ![s] = IF @ = 0 THEN UsedAfterRelease ELSE @]

\* return ctFont (line 65) into testCases[n].font: the reference moves.
Move(r, from, to) == [r EXCEPT ![from] = @ - 1, ![to] = @ + 1]

RECURSIVE ReleaseAll(_, _)
ReleaseAll(r, slots) ==
    IF slots = << >> THEN r ELSE ReleaseAll(CFRelease(r, Head(slots)), Tail(slots))

RECURSIVE UseAll(_, _)
UseAll(r, slots) ==
    IF slots = << >> THEN r ELSE UseAll(Use(r, Head(slots)), Tail(slots))

---------------------------------------------------------------------------
(* The mapped file (lines 38-63).  mem.holders is the set of owners of the *)
(* CFData object: "prog" is fileData of make_ctfont_from_file, the others  *)
(* are platform objects that retained it.  mem.allocHolders is the same    *)
(* for the allocator.                                                      *)

NoMem == [mapped |-> FALSE, info |-> FALSE, holders |-> {}, allocHolders |-> {},
          unmaps |-> 0, infoFrees |-> 0, maps |-> 0, freedAt |-> "none"]

\* The deallocate callback of the allocator context (lines 49-53).  freedAt
\* records where main or make_ctfont_from_file was when it ran.
Deallocate(m) ==
    [m EXCEPT !.mapped = FALSE, !.info = FALSE,
              !.unmaps = @ + 1, !.infoFrees = @ + 1, !.freedAt = pc]

\* The CFData object loses holder h.  When the last holder goes, the object
\* is deallocated: its bytes go to the bytes deallocator (the callback) and
\* its reference to the allocator is dropped.
DropDataHolder(m, h) ==
    IF h \notin m.holders THEN m
    ELSE IF m.holders = {h}
         THEN [Deallocate(m) EXCEPT !.holders = {}, !.allocHolders = @ \ {"data"}]
         ELSE [m EXCEPT !.holders = @ \ {h}]

\* CFRelease(alloc) (line 58) or the CFData dropping its deallocator.  The
\* context has no release callback (line 45): a dying allocator leaves the
\* Data record alone.
DropAllocHolder(m, h) == [m EXCEPT !.allocHolders = @ \ {h}]

\* Mutant: the buffer is unmapped by hand once the font is made.
ReleaseFileData_Unmaps(m) == Deallocate(DropDataHolder(m, "prog"))

\* CFRelease(fileData) (line 62).
ReleaseFileData(m) == DropDataHolder(m, "prog")

\* CFRelease(desc) (line 63).  The descriptor dies, or the font keeps it
\* alive and with it its hold on the bytes.
ReleaseDesc(m, fontKeepsDesc) ==
    IF "desc" \notin m.holders THEN m
    ELSE IF fontKeepsDesc
         THEN [m EXCEPT !.holders = (@ \ {"desc"}) \cup {"font"}]
         ELSE DropDataHolder(m, "desc")

---------------------------------------------------------------------------
(* Pure parts of the two axis loops. *)

\* Mutant: the explicit value is ignored.
ResolvedValue_DefaultOnly(axis, variation) == axis.def

\* Lines 133-140: the font's explicit value when it has one, else the default.
ResolvedValue(axis, variation) ==
    IF axis.tag \in DOMAIN variation THEN variation[axis.tag] ELSE axis.def

\* Mutant: the omission test is missing.
OmitAxis_Never(tagLong, omit_opsz) == FALSE

\* Line 174: the axis is left out of the request.
OmitAxis(tagLong, omit_opsz) == tagLong = kOpszTag /\ omit_opsz

\* Mutant: = in place of += at line 179.
RequestedValue_Assigns(tagLong, currentDouble, axis_to_bump, wghtValue) ==
    LET bumped == IF tagLong = axis_to_bump THEN Bump ELSE currentDouble
    IN  IF tagLong = kWghtTag THEN wghtValue ELSE bumped

\* Lines 172-183: the value requested for an axis that is not left out.
RequestedValue(tagLong, currentDouble, axis_to_bump, wghtValue) ==
    LET bumped == IF tagLong = axis_to_bump THEN currentDouble + Bump
                  ELSE currentDouble
    IN  IF tagLong = kWghtTag THEN wghtValue ELSE bumped

\* Mutant: the perturbed value is written back into the baseline.
BaselineAfterLookup_Writes(baseline, tagLong, valueDouble) ==
    [baseline EXCEPT ![tagLong] = valueDouble]

\* Lines 168-172: the baseline is read with CFDictionaryGetValue, which
\* leaves the dictionary as it is.
BaselineAfterLookup(baseline, tagLong, valueDouble) == baseline

\* The nested range-for loops of lines 153-155: the combination after
\* (o, b, w), or NoTrial after the last one.
NoTrial == <<0, 0, 0>>

\* Mutant: the weight loop stops one value early.
NextTrial_ShortWght(o, b, w) ==
    IF w < Len(WghtValues) - 1 THEN <<o, b, w + 1>>
    ELSE IF b < Len(AxisToBumpValues) THEN <<o, b + 1, 1>>
    ELSE IF o < Len(OmitOpszValues) THEN <<o + 1, 1, 1>>
    ELSE NoTrial

NextTrial(o, b, w) ==
    IF w < Len(WghtValues) THEN <<o, b, w + 1>>
    ELSE IF b < Len(AxisToBumpValues) THEN <<o, b + 1, 1>>
    ELSE IF o < Len(OmitOpszValues) THEN <<o + 1, 1, 1>>
    ELSE NoTrial

\* Mutant: CFRelease(resultAxes) is missing.
TrialReleases_Leaks == <<"innerOriginalVariation", "innerOriginalAxes", "resultVariation",
                         "resultFont", "requestedAttributes", "requestedVariation">>

\* Lines 290-296 and 298-302: the releases that end a trial and a test case.
TrialReleases == <<"innerOriginalVariation", "innerOriginalAxes", "resultVariation",
                   "resultAxes", "resultFont", "requestedAttributes",
                   "requestedVariation">>

CaseReleases == <<"opszNumber", "originalResolvedVariation", "originalVariation",
                  "originalAxes", "originalDescriptor">>

\* What the variation of the font derived from a request may be: the request
\* applied, the request ignored, or the request laid over the original.
ResultVariations(req, orig) == {req, orig, req @@ orig}

\* Mutant: a null handle is taken for a font.
NullHandle_Never(f) == FALSE

\* Lines 108-112: the handle of the test case is null.  The program does
\* not test it.  Each platform call that is handed a null object faults or
\* answers with null; CFRelease of null (lines 91, 290) always faults.
NullHandle(f) == f = "null"

---------------------------------------------------------------------------
(* Initial state: main is entered, nothing is constructed. *)

Init ==
    /\ pc = "construct"
    /\ k = 1
    /\ tc = 1
    /\ font = [n \in 1..NumTestCases |-> "unset"]
    /\ fileOpened = "untried"
    /\ msgs = 0
    /\ mem = NoMem
    /\ rc = [s \in Slots |-> 0]
    /\ fontAxes = << >>
    /\ fontVariation = EmptyDict
    /\ resolved = EmptyDict
    /\ i = 1
    /\ omitIdx = 1
    /\ bumpIdx = 1
    /\ wghtIdx = 1
    /\ requested = EmptyDict
    /\ result = NoFont
    /\ variationEqual = FALSE
    /\ fontEqual = FALSE
    /\ trials = << >>
    /\ casesDone = << >>
    /\ reqSeen = {}
    /\ noneReq = EmptyDict

caseVars == <<fontAxes, fontVariation, resolved, i>>
loopVars == <<omitIdx, bumpIdx, wghtIdx>>
trialVars == <<requested, result, variationEqual, fontEqual>>
histVars == <<trials, casesDone, reqSeen, noneReq>>

\* The element after testCases[k] is constructed next; after the last one
\* the range-for loop of line 107 starts.
AfterConstruct ==
    /\ k' = k + 1
    /\ pc' = IF k = NumTestCases THEN "begincase" ELSE "construct"

---------------------------------------------------------------------------
(* Construction of testCases[] (lines 92-101). *)

\* make_ctfont_from_uifont (lines 68-71).
ConstructUIFont ==
    /\ pc = "construct"
    /\ k # FileCase
    /\ font' = [font EXCEPT ![k] = "font"]
    /\ rc' = Obtain(rc, FontSlots[k])
    /\ AfterConstruct
    /\ UNCHANGED <<tc, fileOpened, msgs, mem>>
    /\ UNCHANGED <<caseVars, loopVars, trialVars, histVars>>

\* make_ctfont_from_file, lines 29-33: fopen fails, the message is printed
\* and nullptr is returned.
FileOpenFails ==
    /\ pc = "construct"
    /\ k = FileCase
    /\ fileOpened' = "failed"
    /\ msgs' = msgs + 1
    /\ font' = [font EXCEPT ![k] = "null"]
    /\ AfterConstruct
    /\ UNCHANGED <<tc, mem, rc>>
    /\ UNCHANGED <<caseVars, loopVars, trialVars, histVars>>

\* make_ctfont_from_file, lines 29-40: fopen succeeds, the file is mapped
\* and the Data record allocated.
FileMap ==
    /\ pc = "construct"
    /\ k = FileCase
    /\ fileOpened' = "ok"
    /\ mem' = [mem EXCEPT !.mapped = TRUE, !.info = TRUE, !.maps = @ + 1]
    /\ pc' = "file_alloc"
    /\ UNCHANGED <<k, tc, font, msgs, rc>>
    /\ UNCHANGED <<caseVars, loopVars, trialVars, histVars>>

\* Lines 56-58: the allocator, the CFData that takes it as its bytes
\* deallocator (and retains it), and the release of the allocator.
FileAlloc ==
    /\ pc = "file_alloc"
    /\ rc' = CFRelease(Obtain(Use(Obtain(rc, "alloc"), "alloc"), "fileData"), "alloc")
    /\ mem' = DropAllocHolder([mem EXCEPT !.holders = {"prog"},
                                          !.allocHolders = {"prog", "data"}], "prog")
    /\ pc' = "file_font"
    /\ UNCHANGED <<k, tc, font, fileOpened, msgs>>
    /\ UNCHANGED <<caseVars, loopVars, trialVars, histVars>>

\* Lines 60-61: the descriptor and the font made from the bytes; each may
\* retain the CFData.
FileFont ==
    /\ pc = "file_font"
    /\ \E descKeeps \in BOOLEAN, fontKeeps \in BOOLEAN :
          mem' = [mem EXCEPT !.holders = @ \cup (IF descKeeps THEN {"desc"} ELSE {})
                                           \cup (IF fontKeeps THEN {"font"} ELSE {})]
    /\ rc' = Obtain(Use(Obtain(Use(rc, "fileData"), "desc"), "desc"), "ctFont")
    /\ pc' = "file_release"
    /\ UNCHANGED <<k, tc, font, fileOpened, msgs>>
    /\ UNCHANGED <<caseVars, loopVars, trialVars, histVars>>

\* Lines 62-65: the two releases and the return of the font.
FileRelease ==
    /\ pc = "file_release"
    /\ \E fontKeepsDesc \in BOOLEAN :
          mem' = ReleaseDesc(ReleaseFileData(mem), fontKeepsDesc)
    /\ rc' = Move(CFRelease(CFRelease(rc, "fileData"), "desc"), "ctFont", FontSlots[k])
    /\ font' = [font EXCEPT ![k] = "font"]
    /\ AfterConstruct
    /\ UNCHANGED <<tc, fileOpened, msgs>>
    /\ UNCHANGED <<caseVars, loopVars, trialVars, histVars>>

---------------------------------------------------------------------------
(* The body of the range-for loop over testCases (lines 107-303). *)

\* Lines 108-121.  With a null font handle the platform calls fault, or
\* answer with null objects and no axes.  Otherwise the platform answers
\* with the font's descriptor, axes and variation.  The baseline dictionary
\* is created empty.  The descriptor of the file font may retain the file
\* bytes while they are alive.
BeginCase ==
    /\ pc = "begincase"
    /\ IF NullHandle(font[tc])
       THEN \/ /\ pc' = "fault"
               /\ UNCHANGED <<mem, rc, caseVars, histVars>>
            \/ /\ pc' = "resolve"
               /\ fontAxes' = << >>
               /\ fontVariation' = EmptyDict
               /\ resolved' = EmptyDict
               /\ i' = 1
               /\ rc' = Obtain(rc, "originalResolvedVariation")
               /\ trials' = << >>
               /\ reqSeen' = {}
               /\ noneReq' = EmptyDict
               /\ UNCHANGED <<mem, casesDone>>
       ELSE /\ \E p \in FontProfiles :
                  /\ fontAxes' = p.axes
                  /\ fontVariation' = p.variation
            /\ \E descKeeps \in BOOLEAN :
                  mem' = IF tc = FileCase /\ mem.holders # {} /\ descKeeps
                         THEN [mem EXCEPT !.holders = @ \cup {"originalDescriptor"}]
                         ELSE mem
            /\ resolved' = EmptyDict
            /\ i' = 1
            /\ rc' = Obtain(Obtain(Obtain(Obtain(Use(rc, FontSlots[tc]),
                        "originalDescriptor"), "originalAxes"), "originalVariation"),
                        "originalResolvedVariation")
            /\ trials' = << >>
            /\ reqSeen' = {}
            /\ noneReq' = EmptyDict
            /\ pc' = "resolve"
            /\ UNCHANGED casesDone
    /\ UNCHANGED <<k, tc, font, fileOpened, msgs, loopVars, trialVars>>

\* One iteration of the introspection loop (lines 122-147).
ResolveAxis ==
    /\ pc = "resolve"
    /\ i <= Len(fontAxes)
    /\ LET originalAxis == fontAxes[i]
           valueDouble == ResolvedValue(originalAxis, fontVariation)
       IN  resolved' = CFDictionaryAddValue(resolved, originalAxis.tag, valueDouble)
    /\ rc' = CFRelease(Obtain(UseAll(rc, <<"originalAxes", "originalVariation",
                                          "originalResolvedVariation">>),
                              "valueNumber"), "valueNumber")
    /\ i' = i + 1
    /\ UNCHANGED <<pc, k, tc, font, fileOpened, msgs, mem, fontAxes, fontVariation>>
    /\ UNCHANGED <<loopVars, trialVars, histVars>>

\* Lines 148-155: the loop is over, opszNumber is created and the sweep starts.
AfterResolve ==
    /\ pc = "resolve"
    /\ i > Len(fontAxes)
    /\ rc' = Obtain(rc, "opszNumber")
    /\ omitIdx' = 1
    /\ bumpIdx' = 1
    /\ wghtIdx' = 1
    /\ pc' = "begintrial"
    /\ UNCHANGED <<k, tc, font, fileOpened, msgs, mem, caseVars, trialVars, histVars>>

\* Lines 156-160: the request dictionary of a trial is created empty.
BeginTrial ==
    /\ pc = "begintrial"
    /\ requested' = EmptyDict
    /\ rc' = Obtain(rc, "requestedVariation")
    /\ i' = 1
    /\ pc' = "request"
    /\ UNCHANGED <<k, tc, font, fileOpened, msgs, mem, fontAxes, fontVariation, resolved>>
    /\ UNCHANGED <<loopVars, result, variationEqual, fontEqual, histVars>>

\* One iteration of the request loop (lines 161-190).  The assertion of
\* line 169 aborts the run when the baseline has no entry for the axis.
RequestAxis ==
    /\ pc = "request"
    /\ i <= Len(fontAxes)
    /\ LET tagLong == fontAxes[i].tag
           omit_opsz == OmitOpszValues[omitIdx]
           axis_to_bump == AxisToBumpValues[bumpIdx]
           wghtValue == WghtValues[wghtIdx]
       IN  IF tagLong \notin DOMAIN resolved
           THEN /\ pc' = "abort"
                /\ rc' = UseAll(rc, <<"originalAxes", "originalResolvedVariation">>)
                /\ UNCHANGED <<requested, resolved, i>>
           ELSE LET valueDouble == RequestedValue(tagLong, resolved[tagLong],
                                                  axis_to_bump, wghtValue)
                IN  /\ pc' = pc
                    /\ resolved' = BaselineAfterLookup(resolved, tagLong, valueDouble)
                    /\ i' = i + 1
                    /\ IF OmitAxis(tagLong, omit_opsz)
                       THEN /\ requested' = requested
                            /\ rc' = UseAll(rc, <<"originalAxes",
                                                  "originalResolvedVariation">>)
                       ELSE /\ requested' = CFDictionaryAddValue(requested, tagLong,
                                                                 valueDouble)
                            /\ rc' = CFRelease(Obtain(UseAll(rc,
                                        <<"originalAxes", "originalResolvedVariation",
                                          "requestedVariation">>),
                                        "valueNumber"), "valueNumber")
    /\ UNCHANGED <<k, tc, font, fileOpened, msgs, mem, fontAxes, fontVariation>>
    /\ UNCHANGED <<loopVars, result, variationEqual, fontEqual, histVars>>

\* Lines 193-272: the attributes dictionary, the descriptor copy and the
\* result font at the original size; the descriptor copy is released.  Then
\* the axes and variation of the result font and, again, of the original
\* font are copied and printed.
CreateResult ==
    /\ pc = "request"
    /\ i > Len(fontAxes)
    /\ IF NullHandle(font[tc])
       THEN \/ /\ pc' = "fault"
               /\ UNCHANGED <<rc, result>>
            \/ /\ pc' = "compare"
               /\ result' = NoFont
               /\ rc' = Use(Obtain(rc, "requestedAttributes"), "requestedVariation")
       ELSE /\ \E v \in ResultVariations(requested, fontVariation) :
                  result' = [size |-> Sizes[tc], variation |-> v]
            /\ LET made == CFRelease(Obtain(Use(Obtain(UseAll(
                              Obtain(rc, "requestedAttributes"),
                              <<"requestedVariation", FontSlots[tc], "originalDescriptor",
                                "requestedAttributes">>),
                              "resultDescriptor"), "resultDescriptor"), "resultFont"),
                              "resultDescriptor")
               IN  rc' = UseAll(Obtain(Obtain(Use(UseAll(Obtain(Obtain(
                              Use(made, "resultFont"),
                              "resultAxes"), "resultVariation"),
                              <<"resultAxes", "resultVariation">>),
                              FontSlots[tc]), "innerOriginalAxes"),
                              "innerOriginalVariation"),
                              <<"innerOriginalAxes", "innerOriginalVariation">>)
            /\ pc' = "compare"
    /\ UNCHANGED <<k, tc, font, fileOpened, msgs, mem, caseVars>>
    /\ UNCHANGED <<loopVars, requested, variationEqual, fontEqual, histVars>>

\* Lines 274-284: the two comparisons.  CFEqual of the two fonts is the
\* platform's answer, and so is every CFEqual of null objects.
Compare ==
    /\ pc = "compare"
    /\ IF NullHandle(font[tc])
       THEN \/ /\ pc' = "fault"
               /\ UNCHANGED <<rc, variationEqual, fontEqual>>
            \/ /\ pc' = "release"
               /\ variationEqual' \in BOOLEAN
               /\ fontEqual' \in BOOLEAN
               /\ UNCHANGED rc
       ELSE /\ variationEqual' = CFEqualDict(result.variation, fontVariation)
            /\ fontEqual' \in BOOLEAN
            /\ rc' = UseAll(rc, <<"resultVariation", "innerOriginalVariation",
                                  "resultFont", FontSlots[tc]>>)
            /\ pc' = "release"
    /\ UNCHANGED <<k, tc, font, fileOpened, msgs, mem, caseVars>>
    /\ UNCHANGED <<loopVars, requested, result, histVars>>

\* Lines 290-297: the releases of the trial, and the step of the three
\* nested loops.  With a null font handle the variation copied at line 247
\* is null and its CFRelease (line 290) faults.
ReleaseTrial ==
    /\ pc = "release"
    /\ IF NullHandle(font[tc])
       THEN /\ pc' = "fault"
            /\ UNCHANGED <<rc, trials, reqSeen, noneReq, loopVars, trialVars>>
       ELSE /\ rc' = ReleaseAll(rc, TrialReleases)
            /\ trials' = Append(trials, <<omitIdx, bumpIdx, wghtIdx>>)
            /\ reqSeen' = reqSeen \cup {requested}
            /\ noneReq' = IF OmitOpszValues[omitIdx] /\ AxisToBumpValues[bumpIdx] = 0
                          THEN noneReq @@ (wghtIdx :> requested)
                          ELSE noneReq
            /\ LET next == NextTrial(omitIdx, bumpIdx, wghtIdx)
               IN  IF next = NoTrial
                   THEN /\ pc' = "endcase"
                        /\ UNCHANGED loopVars
                   ELSE /\ pc' = "begintrial"
                        /\ omitIdx' = next[1]
                        /\ bumpIdx' = next[2]
                        /\ wghtIdx' = next[3]
            /\ result' = NoFont
            /\ variationEqual' = FALSE
            /\ fontEqual' = FALSE
            /\ UNCHANGED requested
    /\ UNCHANGED <<k, tc, font, fileOpened, msgs, mem, caseVars, casesDone>>

\* Lines 298-303: the releases of the test case; the next test case, or the
\* end of main's body.
EndCase ==
    /\ pc = "endcase"
    /\ rc' = ReleaseAll(rc, CaseReleases)
    /\ mem' = IF tc = FileCase THEN DropDataHolder(mem, "originalDescriptor") ELSE mem
    /\ casesDone' = Append(casesDone, Len(trials))
    /\ IF tc = NumTestCases
       THEN /\ pc' = "destroy"
            /\ k' = NumTestCases
            /\ tc' = tc
       ELSE /\ pc' = "begincase"
            /\ k' = k
            /\ tc' = tc + 1
    /\ UNCHANGED <<font, fileOpened, msgs, caseVars, loopVars, trialVars>>
    /\ UNCHANGED <<trials, reqSeen, noneReq>>

\* ~TestCase (line 91), run for the array elements in reverse order when
\* main returns.
Destroy ==
    /\ pc = "destroy"
    /\ IF NullHandle(font[k])
       THEN /\ pc' = "fault"
            /\ UNCHANGED <<k, rc, mem>>
       ELSE /\ rc' = CFRelease(rc, FontSlots[k])
            /\ mem' = IF k = FileCase THEN DropDataHolder(mem, "font") ELSE mem
            /\ k' = k - 1
            /\ pc' = IF k = 1 THEN "done" ELSE "destroy"
    /\ UNCHANGED <<tc, font, fileOpened, msgs, caseVars, loopVars, trialVars, histVars>>

Next ==
    \/ ConstructUIFont
    \/ FileOpenFails
    \/ FileMap
    \/ FileAlloc
    \/ FileFont
    \/ FileRelease
    \/ BeginCase
    \/ ResolveAxis
    \/ AfterResolve
    \/ BeginTrial
    \/ RequestAxis
    \/ CreateResult
    \/ Compare
    \/ ReleaseTrial
    \/ EndCase
    \/ Destroy

Spec == Init /\ [][Next]_vars

\* The program is one thread that runs until it returns or faults: a step
\* that can be taken is taken.
FairSpec == Spec /\ WF_vars(Next)

---------------------------------------------------------------------------
(* Definitions shared by the properties. *)

NumTrials == Len(OmitOpszValues) * Len(AxisToBumpValues) * Len(WghtValues)

\* The combinations in the order of the three nested loops.
ExpectedTrials ==
    [n \in 1..NumTrials |->
        <<((n - 1) \div (Len(AxisToBumpValues) * Len(WghtValues))) + 1,
          (((n - 1) \div Len(WghtValues)) % Len(AxisToBumpValues)) + 1,
          ((n - 1) % Len(WghtValues)) + 1>>]

AxisTags == {fontAxes[n].tag : n \in 1..Len(fontAxes)}

omit_opsz == OmitOpszValues[omitIdx]
axis_to_bump == AxisToBumpValues[bumpIdx]
wghtValue == WghtValues[wghtIdx]

TrialPcs == {"begintrial", "request", "compare", "release"}

\* The request loop of the current trial is over.
RequestComplete ==
    \/ pc = "request" /\ i > Len(fontAxes)
    \/ pc \in {"compare", "release"}

\* The introspection loop of the current test case is over.
BaselineComplete ==
    \/ pc = "resolve" /\ i > Len(fontAxes)
    \/ pc \in TrialPcs \cup {"endcase"}

AllFontsNonNull == \A n \in 1..NumTestCases : font[n] = "font"

\* The position of the current trial in the sweep, counted from 0.
TrialIndex == (omitIdx - 1) * Len(AxisToBumpValues) * Len(WghtValues)
                + (bumpIdx - 1) * Len(WghtValues) + (wghtIdx - 1)

\* The request the loop of lines 161-190 builds from a baseline: the axes
\* but opsz when it is omitted; wght forced, the bumped axis raised, the
\* others as in the baseline.
ExpectedRequest(baseline, omit, bump, wght) ==
    [t \in AxisTags \ (IF omit THEN {kOpszTag} ELSE {}) |->
        IF t = kWghtTag THEN wght
        ELSE IF t = bump THEN baseline[t] + Bump
        ELSE baseline[t]]

\* The baseline the introspection loop builds for the current font.
ExpectedBaseline ==
    [t \in AxisTags |->
        IF t \in DOMAIN fontVariation THEN fontVariation[t] ELSE AxisDefault(t)]

---------------------------------------------------------------------------
\* The trials run so far are the first combinations in loop order, and every
\* finished test case ran all of them.
C2_Sweep ==
    /\ Len(trials) <= NumTrials
    /\ \A n \in 1..Len(trials) : trials[n] = ExpectedTrials[n]
    /\ pc = "endcase" => Len(trials) = NumTrials
    /\ \A n \in 1..Len(casesDone) : casesDone[n] = NumTrials
    /\ pc \in TrialPcs \cup {"begincase", "resolve", "endcase"}
          => Len(casesDone) = tc - 1
    /\ pc \in {"destroy", "done"} => Len(casesDone) = NumTestCases

\* With all fonts non-null the run reaches the return of main.
C2_Terminates == AllFontsNonNull ~> (pc = "done" /\ Len(casesDone) = NumTestCases)

(* C2: with every font handle non-null, each of the six test cases, in     *)
(* array order, runs the 54 combinations of (omit_opsz, axis_to_bump,      *)
(* wght_value) once each, in loop order, none repeated or skipped, and     *)
(* then main terminates.                                                   *)
C2_AllTrialsThenTerminates == []C2_Sweep /\ C2_Terminates

C2_Witness ==
    /\ pc = "done"
    /\ AllFontsNonNull
    /\ Len(casesDone) = NumTestCases
    /\ \A n \in 1..NumTestCases : casesDone[n] = 54

---------------------------------------------------------------------------
(* C3: the requested variation dictionary of a trial has an entry for      *)
(* exactly the axes of the original font, less opsz when omit_opsz is      *)
(* true; the entry of wght is wght_value whatever axis_to_bump is, the     *)
(* entry of the axis equal to axis_to_bump is its baseline value plus the  *)
(* perturbation, and every other entry is the baseline value unmodified.   *)

C3_RequestedDictionary ==
    RequestComplete =>
        /\ DOMAIN requested = AxisTags \ (IF omit_opsz THEN {kOpszTag} ELSE {})
        /\ \A t \in DOMAIN requested :
              requested[t] = IF t = kWghtTag THEN wghtValue
                             ELSE IF t = axis_to_bump THEN resolved[t] + Bump
                             ELSE resolved[t]

C3_Witness ==
    /\ RequestComplete
    /\ omit_opsz
    /\ axis_to_bump = kWdthTag
    /\ AxisTags = {kOpszTag, kWdthTag, kWghtTag}
    /\ requested = (kWdthTag :> (resolved[kWdthTag] + 1)) @@ (kWghtTag :> wghtValue)

---------------------------------------------------------------------------
(* C4: with every font handle non-null, every object main or               *)
(* make_ctfont_from_file obtains is released exactly once and never used   *)
(* after its release: no variable ever holds more than one owned           *)
(* reference, nothing is over-released or used after release, the objects  *)
(* of a trial are gone when the next trial starts, those of a test case    *)
(* when the next test case starts, and at exit nothing is left.            *)

C4_ReleasedExactlyOnce ==
    fileOpened # "failed" =>
        /\ \A s \in Slots : rc[s] \in {0, 1}
        /\ pc = "begintrial" => \A s \in TrialSlots \cup {"valueNumber"} : rc[s] = 0
        /\ pc \in {"begincase", "destroy", "done"} =>
              \A s \in CaseSlots \cup TrialSlots \cup FileSlots \cup {"valueNumber"} :
                  rc[s] = 0
        /\ pc = "done" => \A s \in Slots : rc[s] = 0

C4_Witness ==
    /\ pc = "done"
    /\ fileOpened = "ok"
    /\ \A s \in Slots : rc[s] = 0

---------------------------------------------------------------------------
\* The CFData object of the file has been created.
DataCreated ==
    /\ fileOpened = "ok"
    /\ pc # "file_alloc"
    /\ pc = "construct" => k > FileCase

(* C5: the mapped file buffer is unmapped and its Data record freed at     *)
(* most once, together, by the deallocation callback, and only when the    *)
(* CFData has lost its last holder: while the descriptor, the font or      *)
(* make_ctfont_from_file holds the CFData the buffer stays mapped, and     *)
(* once the run is over it has been unmapped exactly once.                 *)

C5_UnmappedOnceAfterLastHolder ==
    /\ mem.unmaps <= 1
    /\ mem.unmaps = mem.infoFrees
    /\ mem.maps <= 1
    /\ mem.mapped <=> mem.info
    /\ mem.unmaps = 1 => mem.holders = {} /\ ~mem.mapped /\ mem.maps = 1
    /\ DataCreated => (mem.holders # {} <=> mem.mapped)
    /\ DataCreated => (mem.holders = {} <=> mem.unmaps = 1)
    /\ DataCreated => ("data" \in mem.allocHolders <=> mem.holders # {})
    /\ pc = "done" /\ fileOpened = "ok" => mem.unmaps = 1

\* The font held the bytes until ~TestCase released it.
C5_Witness ==
    /\ pc = "done"
    /\ mem.unmaps = 1
    /\ mem.freedAt = "destroy"

---------------------------------------------------------------------------
(* C6: when the file cannot be opened, make_ctfont_from_file prints the    *)
(* message and returns null without mapping memory or creating an object;  *)
(* the null handle is the font of its test case, and the run ends in a     *)
(* fault when main reaches that test case, after the 54 trials of the      *)
(* test case before it and without entering a later test case.             *)

C6_OpenFailureFaults ==
    /\ fileOpened = "failed" =>
          /\ msgs = 1
          /\ mem = NoMem
          /\ \A s \in FileSlots \cup {FontSlots[FileCase]} : rc[s] = 0
          /\ font[FileCase] = "null"
          /\ tc <= FileCase
          /\ pc \notin {"destroy", "done", "abort"}
          /\ tc = FileCase => pc # "endcase"
          /\ tc = FileCase /\ pc \in TrialPcs => trials = << >> /\ TrialIndex = 0
          /\ pc = "fault" => tc = FileCase /\ casesDone = <<NumTrials>>
    /\ fileOpened # "failed" => msgs = 0 /\ pc # "fault"

C6_Witness ==
    /\ pc = "fault"
    /\ fileOpened = "failed"
    /\ tc = FileCase
    /\ casesDone = <<54>>

---------------------------------------------------------------------------
(* C8: after the introspection loop the baseline dictionary has an entry   *)
(* for every axis of the original font: the font's explicit value when its *)
(* variation dictionary has one, the axis's default otherwise; so the      *)
(* lookup of line 168 finds a value in every trial and the assertion of    *)
(* line 169 never fails.                                                   *)

C8_BaselineResolved ==
    /\ pc # "abort"
    /\ BaselineComplete =>
          /\ DOMAIN resolved = AxisTags
          /\ \A n \in 1..Len(fontAxes) :
                resolved[fontAxes[n].tag] =
                    IF fontAxes[n].tag \in DOMAIN fontVariation
                    THEN fontVariation[fontAxes[n].tag]
                    ELSE fontAxes[n].def

C8_Witness ==
    /\ pc = "request"
    /\ i > 1
    /\ kOpszTag \in DOMAIN fontVariation
    /\ kWghtTag \in AxisTags \ DOMAIN fontVariation
    /\ resolved[kOpszTag] = 28 * Scale
    /\ resolved[kWghtTag] = 400 * Scale

---------------------------------------------------------------------------
\* The variables of a test case that every trial reads.
OriginalSlots == {"originalDescriptor", "originalAxes", "originalVariation",
                  "originalResolvedVariation", "opszNumber", FontSlots[tc]}

\* A step inside the sweep leaves the test case's state alone.
C9_TrialFrame ==
    (pc \in TrialPcs /\ pc' \in TrialPcs \cup {"endcase"}) =>
        /\ UNCHANGED <<tc, font, fontAxes, fontVariation, resolved>>
        /\ \A s \in OriginalSlots : rc'[s] = rc[s]

\* The request is a function of the font's baseline and the parameters.
C9_RequestFromBaseline ==
    /\ RequestComplete =>
          requested = ExpectedRequest(ExpectedBaseline, omit_opsz, axis_to_bump, wghtValue)
    /\ pc = "resolve" => DOMAIN resolved = {fontAxes[n].tag : n \in 1..(i - 1)}

(* C9: no trial changes what later trials read.  A step of a trial leaves  *)
(* the test case's font, axis list, variation, baseline dictionary and the *)
(* ownership of the original objects as they are; the request of a trial   *)
(* is the one computed from the font's baseline and the trial's three      *)
(* parameters alone; and a test case starts its baseline from empty.       *)

C9_TrialsIndependent == []C9_RequestFromBaseline /\ [][C9_TrialFrame]_vars

C9_Witness ==
    /\ pc = "release"
    /\ Len(trials) >= Len(WghtValues) + 1
    /\ axis_to_bump = kOpszTag
    /\ ~omit_opsz
    /\ kOpszTag \in AxisTags
    /\ requested[kOpszTag] = resolved[kOpszTag] + 1

---------------------------------------------------------------------------
(* C10: with omit_opsz true and axis_to_bump the opsz axis no axis is      *)
(* perturbed: the request equals the one of the trial with the same        *)
(* wght_value, omit_opsz true and no axis to bump, and the 54 trials of a  *)
(* test case produce at most 45 distinct requests.                         *)

C10_OmittedBumpIsNoBump ==
    /\ (RequestComplete /\ omit_opsz /\ axis_to_bump = kOpszTag) =>
          /\ wghtIdx \in DOMAIN noneReq
          /\ requested = noneReq[wghtIdx]
          /\ \A t \in DOMAIN requested : t # kWghtTag => requested[t] = resolved[t]
    /\ Cardinality(reqSeen) <= NumTrials - Len(WghtValues)
    /\ Cardinality(reqSeen) <= 45

C10_Witness ==
    /\ pc = "endcase"
    /\ AxisTags = {kOpszTag, kWdthTag, kWghtTag}
    /\ Cardinality(reqSeen) = 45

=============================================================================
